---- MODULE Spec2Model ----
(***************************************************************************)
(* Model of the crop_viz data pipeline: scripts/data_gen.py (the three     *)
(* generators and their CSV writes) and the line-forecast projection of    *)
(* scripts/viz.py.                                                         *)
(*                                                                         *)
(* Numbers are fixed point.  A raw draw is kept in thousandths ("milli"),  *)
(* a value rounded to two decimals in hundredths ("centi").  The random    *)
(* generator of numpy is outside the repository: it is modelled as a       *)
(* deterministic generator with a finite state, whose state after          *)
(* seed(42) is unknown (seedmap) and whose state at process start is the   *)
(* operating system's entropy.  Each draw maps the generator state to a    *)
(* value of the drawn distribution's range and advances the state.         *)
(***************************************************************************)
EXTENDS Integers, Sequences, FiniteSets, TLC

\* ---- bounds of the model ----
NumNutrients == 3
NumRegions == 2
NumYears == 3
NumCrops == 2
MaxRuns == 2
RngMod == 120

\* ---- program constants ----
YearStop == 2026

nutrients ==
    SubSeq(<<"N", "P", "K", "Ca", "Mg", "Fe", "Zn", "Cu", "Mn", "B", "Mo">>, 1, NumNutrients)

regions ==
    SubSeq(<<"North", "South", "East", "West", "Central">>, 1, NumRegions)

region_climate ==
    [r \in {"North", "South", "East", "West", "Central"} |->
        CASE r = "North" -> "Cold"
          [] r = "South" -> "Hot"
          [] r = "East" -> "Temperate"
          [] r = "West" -> "Dry"
          [] r = "Central" -> "Temperate"]

\* np.arange(start, 2026): the last NumYears years before YearStop
years == [k \in 1..NumYears |-> YearStop - NumYears + k - 1]

crops ==
    SubSeq(<<"Wheat", "Corn", "Soybean", "Rice", "Barley">>, 1, NumCrops)

projection_years == <<2026, 2027, 2028>>

FileNames == {"nutrient_interactions.csv", "soil_samples.csv", "crop_yields.csv"}

\* ---- the random generator ----
EntropyStates == {1, RngMod \div 3, RngMod - 1}

RngNext(s) == (61 * s + 7) % RngMod

RECURSIVE RngAfter(_, _)
RngAfter(s, k) == IF k = 0 THEN s ELSE RngAfter(RngNext(s), k - 1)

Pick(tab, s) == tab[(s % Len(tab)) + 1]

\* the seed call left out: the generator keeps the state the process started with
RandomSeedOmitted(before, seeded) == before

\* np.random.seed(42): the state no longer depends on the state before
RandomSeed(before, seeded) == seeded

\* np.random.choice([...], p=[0.3, 0.3, 0.4]): inverse cdf of one uniform
RandomChoice(s) ==
    IF 10 * s < 3 * RngMod THEN "antagonism"
    ELSE IF 10 * s < 6 * RngMod THEN "stimulation"
    ELSE "none"

\* the lower end of the weight range taken as 0
UniformWeightFromZero(s) == Pick(<<0, 4, 105, 106, 550, 994, 995, 999>>, s)

\* np.random.uniform(0.1, 1.0), in milli: a value of [0.1, 1.0)
UniformWeight(s) == Pick(<<100, 104, 105, 106, 550, 994, 995, 999>>, s)

\* np.random.uniform(10, 100), in milli: a value of [10, 100)
UniformConc(s) == Pick(<<10000, 55555, 99999>>, s)

\* np.random.normal(loc=70, scale=10), in milli: any real
NormalScore(s) ==
    Pick(<<-5000, 59994, 59995, 60000, 70000, 72000, 74000,
           79994, 79995, 80000, 105000>>, s)

\* np.random.uniform(2000, 8000), in milli: a value of [2000, 8000)
UniformYield(s) ==
    Pick(<<2000000, 3499994, 3499995, 3500000, 4750000,
           5999994, 5999995, 6000000, 7999999>>, s)

\* ---- arithmetic ----
\* round(x, 2) of a non-negative x: milli to centi, ties to even
Round2(m) ==
    LET q == m \div 10
        r == m % 10
    IN  IF r > 5 \/ (r = 5 /\ q % 2 = 1) THEN q + 1 ELSE q

\* np.clip(x, 0, 100) in milli
Clip(x) == IF x < 0 THEN 0 ELSE IF x > 100000 THEN 100000 ELSE x

\* weight = round(np.random.uniform(0.1, 1.0), 2), in centi
EdgeWeight(s) == Round2(UniformWeight(s))

\* the cascade applied to the score before it is rounded (milli)
SoilQualityOfRaw(raw, stored) ==
    IF raw < 60000 THEN "Low"
    ELSE IF raw < 80000 THEN "Medium"
    ELSE "High"

\* the cascade of lines 44-49 on the stored score (centi)
SoilQuality(raw, stored) ==
    IF stored < 6000 THEN "Low"
    ELSE IF stored < 8000 THEN "Medium"
    ELSE "High"

\* the cascade applied to the yield before it is rounded (milli)
CropHealthOfRaw(raw, stored) ==
    IF raw < 3500000 THEN "Poor"
    ELSE IF raw < 6000000 THEN "Moderate"
    ELSE "Excellent"

\* the cascade of lines 66-71 on the stored yield (centi)
CropHealth(raw, stored) ==
    IF stored < 350000 THEN "Poor"
    ELSE IF stored < 600000 THEN "Moderate"
    ELSE "Excellent"

\* ---- CSV formatting and parsing ----
\* a float with d decimals is written as its integer and fractional digits
CsvFloat(n, scale) == <<n \div scale, n % scale>>
ParseFloat(cell, scale) == cell[1] * scale + cell[2]

MapSeq(f(_), s) == [k \in DOMAIN s |-> f(s[k])]

ToCsvEdge(e) ==
    [source_nutrient |-> e.source_nutrient, target_nutrient |-> e.target_nutrient,
     effect_type |-> e.effect_type, weight |-> CsvFloat(e.weight, 100)]

ToCsvSoil(r) ==
    [region |-> r.region, climate_zone |-> r.climate_zone, year |-> r.year,
     conc |-> [k \in DOMAIN r.conc |-> CsvFloat(r.conc[k], 1000)],
     sustainability_score |-> CsvFloat(r.sustainability_score, 100),
     soil_quality |-> r.soil_quality]

ToCsvCrop(r) ==
    [region |-> r.region, climate_zone |-> r.climate_zone, year |-> r.year,
     crop_type |-> r.crop_type,
     yield_kg_per_hectare |-> CsvFloat(r.yield_kg_per_hectare, 100),
     soil_sustainability_score |-> CsvFloat(r.soil_sustainability_score, 100),
     crop_health |-> r.crop_health]

\* pd.read_csv of soil_samples.csv; scores become floats, kept as num/den
ReadCsvSoil(r) ==
    [region |-> r.region, climate_zone |-> r.climate_zone, year |-> r.year,
     conc |-> [k \in DOMAIN r.conc |-> ParseFloat(r.conc[k], 1000)],
     sustainability_score |-> <<ParseFloat(r.sustainability_score, 100), 1>>,
     soil_quality |-> r.soil_quality]

NoFile == [written_by |-> 0, rows |-> <<>>]

VARIABLES
    pc,             \* position of the running script
    run,            \* which run of data_gen.py this is
    rng,            \* state of the global numpy generator
    seedmap,        \* the generator state that seed(42) sets
    ndraws,         \* draws made by this run
    interactions,
    si, ti,         \* loop positions in nutrients x nutrients
    soil_data,
    df_soil,
    yi, ri,         \* loop positions in years x regions
    crop_data,
    ci,             \* loop position in crops
    soil_score,
    files,          \* the data directory
    completed,      \* the tables of every run that reached the end
    forecast_df,
    vregions, vi,   \* forecast_df['region'].unique() and the position in it
    pj,             \* position in projection_years
    slope,
    last_value,
    last_climate

vars == <<pc, run, rng, seedmap, ndraws, interactions, si, ti, soil_data, df_soil,
          yi, ri, crop_data, ci, soil_score, files, completed, forecast_df,
          vregions, vi, pj, slope, last_value, last_climate>>

genvars == <<interactions, si, ti, soil_data, df_soil, yi, ri, crop_data, ci, soil_score>>
vizvars == <<forecast_df, vregions, vi, pj, slope, last_value, last_climate>>

FreshProcess ==
    /\ ndraws = 0
    /\ interactions = <<>>
    /\ si = 1 /\ ti = 1
    /\ soil_data = <<>>
    /\ df_soil = <<>>
    /\ yi = 1 /\ ri = 1
    /\ crop_data = <<>>
    /\ ci = 1
    /\ soil_score = 0

NoViz ==
    /\ forecast_df = <<>>
    /\ vregions = <<>>
    /\ vi = 1 /\ pj = 1
    /\ slope = <<0, 1>>
    /\ last_value = <<0, 1>>
    /\ last_climate = ""

Init ==
    /\ pc = "seed"
    /\ run = 1
    /\ rng \in EntropyStates
    /\ seedmap \in 0..(RngMod - 1)
    /\ FreshProcess
    /\ files = [f \in FileNames |-> NoFile]
    /\ completed = <<>>
    /\ NoViz

\* ---- data_gen.py ----

\* lines 24-25
Seed ==
    /\ pc = "seed"
    /\ rng' = RandomSeed(rng, seedmap)
    /\ interactions' = <<>>
    /\ pc' = "interactions"
    /\ UNCHANGED <<run, seedmap, ndraws, si, ti, soil_data, df_soil, yi, ri, crop_data,
                   ci, soil_score, files, completed>>
    /\ UNCHANGED vizvars

\* the test source != target left out
SelfPairIgnored(source, target) == FALSE

\* lines 28-32: the body of the double loop for one (source, target)
SelfPair(source, target) == source = target

EdgesAfter(edges, source, target, s) ==
    IF SelfPair(source, target) THEN edges
    ELSE LET effect == RandomChoice(s)
         IN  IF effect # "none"
             THEN Append(edges, [source_nutrient |-> source, target_nutrient |-> target,
                                 effect_type |-> effect,
                                 weight |-> EdgeWeight(RngNext(s))])
             ELSE edges

DrawsOfPair(source, target, s) ==
    IF SelfPair(source, target) THEN 0
    ELSE IF RandomChoice(s) # "none" THEN 2 ELSE 1

\* lines 26-32: one iteration of the double loop
InteractionStep ==
    /\ pc = "interactions"
    /\ LET source == nutrients[si]
           target == nutrients[ti]
           k == DrawsOfPair(source, target, rng)
       IN  /\ interactions' = EdgesAfter(interactions, source, target, rng)
           /\ rng' = RngAfter(rng, k)
           /\ ndraws' = ndraws + k
    /\ IF ti < Len(nutrients)
       THEN /\ ti' = ti + 1
            /\ UNCHANGED <<si, pc>>
       ELSE IF si < Len(nutrients)
       THEN /\ ti' = 1
            /\ si' = si + 1
            /\ UNCHANGED pc
       ELSE /\ pc' = "write_interactions"
            /\ UNCHANGED <<si, ti>>
    /\ UNCHANGED <<run, seedmap, soil_data, df_soil, yi, ri, crop_data, ci, soil_score,
                   files, completed>>
    /\ UNCHANGED vizvars

\* to_csv: the file is replaced by the whole table, or the write raises
ToCsv(fs, name, rows, ok) ==
    IF ok THEN [fs EXCEPT ![name] = [written_by |-> run, rows |-> rows]] ELSE fs

\* lines 33-34
WriteInteractions ==
    /\ pc = "write_interactions"
    /\ \E ok \in BOOLEAN :
        /\ files' = ToCsv(files, "nutrient_interactions.csv",
                          MapSeq(ToCsvEdge, interactions), ok)
        /\ pc' = IF ok THEN "soil" ELSE "failed"
    /\ UNCHANGED <<run, rng, seedmap, ndraws, completed>>
    /\ UNCHANGED genvars
    /\ UNCHANGED vizvars

\* lines 42-50: the row of one (year, region)
SoilRow(year, region, s) ==
    LET n == Len(nutrients)
        raw == Clip(NormalScore(RngAfter(s, n)))
        sustainability_score == Round2(raw)
    IN  [region |-> region, climate_zone |-> region_climate[region], year |-> year,
         conc |-> [k \in 1..n |-> UniformConc(RngAfter(s, k - 1))],
         sustainability_score |-> sustainability_score,
         soil_quality |-> SoilQuality(raw, sustainability_score)]

\* lines 40-51: one iteration of the double loop
SoilStep ==
    /\ pc = "soil"
    /\ soil_data' = Append(soil_data, SoilRow(years[yi], regions[ri], rng))
    /\ rng' = RngAfter(rng, Len(nutrients) + 1)
    /\ ndraws' = ndraws + Len(nutrients) + 1
    /\ IF ri < Len(regions)
       THEN /\ ri' = ri + 1
            /\ UNCHANGED <<yi, pc>>
       ELSE IF yi < Len(years)
       THEN /\ ri' = 1
            /\ yi' = yi + 1
            /\ UNCHANGED pc
       ELSE /\ pc' = "write_soil"
            /\ UNCHANGED <<yi, ri>>
    /\ UNCHANGED <<run, seedmap, interactions, si, ti, df_soil, crop_data, ci, soil_score,
                   files, completed>>
    /\ UNCHANGED vizvars

\* lines 53-55
WriteSoil ==
    /\ pc = "write_soil"
    /\ df_soil' = soil_data
    /\ \E ok \in BOOLEAN :
        /\ files' = ToCsv(files, "soil_samples.csv", MapSeq(ToCsvSoil, soil_data), ok)
        /\ pc' = IF ok THEN "crop_lookup" ELSE "failed"
    /\ yi' = 1
    /\ ri' = 1
    /\ UNCHANGED <<run, rng, seedmap, ndraws, interactions, si, ti, soil_data, crop_data,
                   ci, soil_score, completed>>
    /\ UNCHANGED vizvars

\* the match made on the region alone
SoilMatchesRegionOnly(df, region, year) ==
    SelectSeq(df, LAMBDA r : r.region = region)

\* line 63: the rows of df_soil that match, and .values[0] of their scores
SoilMatches(df, region, year) ==
    SelectSeq(df, LAMBDA r : r.region = region /\ r.year = year)

\* a missing sample read as a score of 0 instead of raising
SoilLookupDefaulted(df, region, year) ==
    LET m == SoilMatches(df, region, year)
    IN  IF m = <<>> THEN [ok |-> TRUE, value |-> 0]
        ELSE [ok |-> TRUE, value |-> m[1].sustainability_score]

SoilLookup(df, region, year) ==
    LET m == SoilMatches(df, region, year)
    IN  IF m = <<>> THEN [ok |-> FALSE, value |-> 0]
        ELSE [ok |-> TRUE, value |-> m[1].sustainability_score]

\* line 63; an empty match raises IndexError
CropLookup ==
    /\ pc = "crop_lookup"
    /\ LET got == SoilLookup(df_soil, regions[ri], years[yi])
       IN  IF got.ok
           THEN /\ soil_score' = got.value
                /\ ci' = 1
                /\ pc' = "crop_inner"
           ELSE /\ pc' = "failed"
                /\ UNCHANGED <<soil_score, ci>>
    /\ UNCHANGED <<run, rng, seedmap, ndraws, interactions, si, ti, soil_data, df_soil,
                   yi, ri, crop_data, files, completed>>
    /\ UNCHANGED vizvars

\* lines 65-75: the record of one (year, region, crop)
CropRow(year, region, crop, score, s) ==
    LET raw == UniformYield(s)
        yield_kg == Round2(raw)
    IN  [region |-> region, climate_zone |-> region_climate[region], year |-> year,
         crop_type |-> crop, yield_kg_per_hectare |-> yield_kg,
         soil_sustainability_score |-> score,
         crop_health |-> CropHealth(raw, yield_kg)]

\* the append moved out of the crop loop: only the last crop is kept
AppendCropAfterLoop(data, row) ==
    IF row.crop_type = crops[Len(crops)] THEN Append(data, row) ELSE data

\* line 72: crop_data.append([...]), inside the crop loop
AppendCrop(data, row) == Append(data, row)

\* lines 64-75: one iteration of the crop loop, and the step of the outer loops
CropStep ==
    /\ pc = "crop_inner"
    /\ crop_data' = AppendCrop(crop_data,
                               CropRow(years[yi], regions[ri], crops[ci], soil_score, rng))
    /\ rng' = RngNext(rng)
    /\ ndraws' = ndraws + 1
    /\ IF ci < Len(crops)
       THEN /\ ci' = ci + 1
            /\ UNCHANGED <<yi, ri, pc>>
       ELSE IF ri < Len(regions)
       THEN /\ ri' = ri + 1
            /\ pc' = "crop_lookup"
            /\ UNCHANGED <<yi, ci>>
       ELSE IF yi < Len(years)
       THEN /\ ri' = 1
            /\ yi' = yi + 1
            /\ pc' = "crop_lookup"
            /\ UNCHANGED ci
       ELSE /\ pc' = "write_crops"
            /\ UNCHANGED <<yi, ri, ci>>
    /\ UNCHANGED <<run, seedmap, interactions, si, ti, soil_data, df_soil, soil_score,
                   files, completed>>
    /\ UNCHANGED vizvars

\* lines 77-85
WriteCrops ==
    /\ pc = "write_crops"
    /\ \E ok \in BOOLEAN :
        /\ files' = ToCsv(files, "crop_yields.csv", MapSeq(ToCsvCrop, crop_data), ok)
        /\ pc' = IF ok THEN "done" ELSE "failed"
        /\ completed' =
              IF ok
              THEN Append(completed,
                          [interactions |-> interactions, soil_data |-> soil_data,
                           crop_data |-> crop_data, ndraws |-> ndraws, rng |-> rng])
              ELSE completed
    /\ UNCHANGED <<run, rng, seedmap, ndraws>>
    /\ UNCHANGED genvars
    /\ UNCHANGED vizvars

\* the script is run again: a new process, the data directory is kept
Rerun ==
    /\ pc \in {"done", "failed"}
    /\ run < MaxRuns
    /\ run' = run + 1
    /\ pc' = "seed"
    /\ rng' \in EntropyStates
    /\ ndraws' = 0
    /\ interactions' = <<>>
    /\ si' = 1 /\ ti' = 1
    /\ soil_data' = <<>>
    /\ df_soil' = <<>>
    /\ yi' = 1 /\ ri' = 1
    /\ crop_data' = <<>>
    /\ ci' = 1
    /\ soil_score' = 0
    /\ UNCHANGED <<seedmap, files, completed>>
    /\ UNCHANGED vizvars

\* ---- viz.py, the line forecast ----

\* exact fractions <<numerator, denominator>>, denominator positive
RECURSIVE Gcd(_, _)
Gcd(a, b) == IF b = 0 THEN a ELSE Gcd(b, a % b)

Abs(a) == IF a < 0 THEN -a ELSE a

Frac(n, d) ==
    LET g == Gcd(Abs(n), Abs(d))
        sgn == IF d < 0 THEN -1 ELSE 1
    IN  <<sgn * (n \div g), sgn * (d \div g)>>

FracAdd(a, b) == Frac(a[1] * b[2] + b[1] * a[2], a[2] * b[2])
FracMul(a, b) == Frac(a[1] * b[1], a[2] * b[2])
FracSub(a, b) == FracAdd(a, <<-b[1], b[2]>>)
FracDiv(a, b) == Frac(a[1] * b[2], a[2] * b[1])
FracEq(a, b) == a[1] * b[2] = b[1] * a[2]

RECURSIVE FracSum(_)
FracSum(s) == IF s = <<>> THEN <<0, 1>> ELSE FracAdd(s[1], FracSum(Tail(s)))

\* np.polyfit(x, y, 1)[0]: the least-squares slope of y against x
Polyfit1(sub) ==
    LET n == <<Len(sub), 1>>
        sx == FracSum([k \in DOMAIN sub |-> <<sub[k].year, 1>>])
        sy == FracSum([k \in DOMAIN sub |-> sub[k].sustainability_score])
        sxx == FracSum([k \in DOMAIN sub |-> <<sub[k].year * sub[k].year, 1>>])
        sxy == FracSum([k \in DOMAIN sub |->
                          FracMul(<<sub[k].year, 1>>, sub[k].sustainability_score)])
    IN  FracDiv(FracSub(FracMul(n, sxy), FracMul(sx, sy)),
                FracSub(FracMul(n, sxx), FracMul(sx, sx)))

\* Series.unique(): the values in order of first appearance
RECURSIVE Unique(_, _)
Unique(s, seen) ==
    IF s = <<>> THEN <<>>
    ELSE IF s[1] \in seen THEN Unique(Tail(s), seen)
    ELSE <<s[1]>> \o Unique(Tail(s), seen \cup {s[1]})

\* line 24: forecast_df[forecast_df['region'] == region]
RegionRows(df, region) == SelectSeq(df, LAMBDA r : r.region = region)

\* the last row of the whole frame instead of the region's
LastRowOfFrame(df, sub) == df[Len(df)]

\* line 26: the row that sub.iloc[-1] reads
LastRow(df, sub) == sub[Len(sub)]

FileExists(name) == files[name].written_by # 0

\* lines 15-16 and 21-23; read_csv of a missing file raises
VizLoad ==
    /\ pc \in {"done", "failed"}
    /\ IF FileExists("soil_samples.csv") /\ FileExists("crop_yields.csv")
       THEN /\ forecast_df' = MapSeq(ReadCsvSoil, files["soil_samples.csv"].rows)
            /\ vregions' = Unique(MapSeq(LAMBDA r : r.region,
                                         files["soil_samples.csv"].rows), {})
            /\ pc' = "viz_region"
       ELSE /\ pc' = "viz_failed"
            /\ UNCHANGED <<forecast_df, vregions>>
    /\ UNCHANGED <<run, rng, seedmap, ndraws, files, completed, vi, pj, slope,
                   last_value, last_climate>>
    /\ UNCHANGED genvars

\* lines 23-26: a region's slope and last value
VizRegion ==
    /\ pc = "viz_region"
    /\ LET sub == RegionRows(forecast_df, vregions[vi])
       IN  /\ slope' = Polyfit1(sub)
           /\ last_value' = LastRow(forecast_df, sub).sustainability_score
           /\ last_climate' = LastRow(forecast_df, sub).climate_zone
    /\ pj' = 1
    /\ pc' = "viz_append"
    /\ UNCHANGED <<run, rng, seedmap, ndraws, files, completed, forecast_df, vregions, vi>>
    /\ UNCHANGED genvars

\* lines 28-35: the projected row of year number i
ProjectedRow(region, i, year) ==
    [region |-> region, climate_zone |-> last_climate, year |-> year,
     conc |-> [k \in 1..Len(nutrients) |-> "nan"],
     sustainability_score |-> FracAdd(last_value, FracMul(<<i, 1>>, slope)),
     soil_quality |-> "None"]

\* lines 27-36: one iteration of the projection loop, and the step of the region loop
VizAppend ==
    /\ pc = "viz_append"
    /\ forecast_df' = Append(forecast_df,
                             ProjectedRow(vregions[vi], pj, projection_years[pj]))
    /\ IF pj < Len(projection_years)
       THEN /\ pj' = pj + 1
            /\ UNCHANGED <<vi, pc>>
       ELSE IF vi < Len(vregions)
       THEN /\ vi' = vi + 1
            /\ pc' = "viz_region"
            /\ UNCHANGED pj
       ELSE /\ pc' = "viz_done"
            /\ UNCHANGED <<vi, pj>>
    /\ UNCHANGED <<run, rng, seedmap, ndraws, files, completed, vregions, slope,
                   last_value, last_climate>>
    /\ UNCHANGED genvars

Next ==
    \/ Seed
    \/ InteractionStep
    \/ WriteInteractions
    \/ SoilStep
    \/ WriteSoil
    \/ CropLookup
    \/ CropStep
    \/ WriteCrops
    \/ Rerun
    \/ VizLoad
    \/ VizRegion
    \/ VizAppend

Spec == Init /\ [][Next]_vars

\* ---- the yield table generator on an arbitrary soil table ----

\* a complete soil table: the row of each (year, region), in the order of the
\* soil loop, built from some generator state
SoilTable(s) ==
    [k \in 1..(NumYears * NumRegions) |->
        SoilRow(years[((k - 1) \div NumRegions) + 1], regions[((k - 1) % NumRegions) + 1],
                (s + (k - 1) * (Len(nutrients) + 1)) % RngMod)]

\* the rows of t whose (year, region) is in keep, in order
KeepRows(t, keep) == SelectSeq(t, LAMBDA r : <<r.year, r.region>> \in keep)

InitYield ==
    /\ pc = "crop_lookup"
    /\ run = 1
    /\ rng \in EntropyStates
    /\ seedmap = rng
    /\ ndraws = NumYears * NumRegions * (Len(nutrients) + 1)
    /\ interactions = <<>>
    /\ si = Len(nutrients) /\ ti = Len(nutrients)
    /\ \E keep \in SUBSET ({years[y] : y \in DOMAIN years} \X {regions[r] : r \in DOMAIN regions}) :
          /\ soil_data = KeepRows(SoilTable(seedmap), keep)
          /\ df_soil = soil_data
          /\ files = [f \in FileNames |->
                        IF f = "nutrient_interactions.csv" THEN [written_by |-> 1, rows |-> <<>>]
                        ELSE IF f = "soil_samples.csv"
                        THEN [written_by |-> 1, rows |-> MapSeq(ToCsvSoil, soil_data)]
                        ELSE NoFile]
    /\ yi = 1 /\ ri = 1
    /\ crop_data = <<>>
    /\ ci = 1
    /\ soil_score = 0
    /\ completed = <<>>
    /\ NoViz

NextYield ==
    \/ CropLookup
    \/ CropStep
    \/ WriteCrops

SpecYield == InitYield /\ [][NextYield]_vars

\* ---- properties ----

SoilKeyMatches(table, region, year) ==
    {k \in DOMAIN table : table[k].region = region /\ table[k].year = year}

\* C1: every crop-yield record has exactly one soil sample of its region and
\* year, and carries exactly that sample's sustainability score; the same holds
\* of the two tables as written once the run is complete.
C1_JoinInvariant ==
    /\ \A c \in DOMAIN crop_data :
          LET m == SoilKeyMatches(soil_data, crop_data[c].region, crop_data[c].year)
          IN  /\ Cardinality(m) = 1
              /\ \A k \in m : crop_data[c].soil_sustainability_score
                                 = soil_data[k].sustainability_score
    /\ pc = "done" =>
          LET fc == files["crop_yields.csv"].rows
              fs == files["soil_samples.csv"].rows
          IN  /\ Len(fc) = Len(crop_data)
              /\ \A c \in DOMAIN fc :
                    LET m == SoilKeyMatches(fs, fc[c].region, fc[c].year)
                    IN  /\ Cardinality(m) = 1
                        /\ \A k \in m : fc[c].soil_sustainability_score
                                           = fs[k].sustainability_score

C1_Witness ==
    /\ pc = "done"
    /\ \E a, b \in DOMAIN crop_data :
          /\ crop_data[a].region = crop_data[b].region
          /\ crop_data[a].year # crop_data[b].year
          /\ crop_data[a].soil_sustainability_score # crop_data[b].soil_sustainability_score

\* C2: every run that reaches the end has made the same number of draws, left
\* the generator in the same state and built the same three tables.
C2_Determinism ==
    \A a, b \in DOMAIN completed : completed[a] = completed[b]

C2_Witness ==
    /\ Len(completed) >= 2
    /\ completed[1].interactions # <<>>

WrittenByThisRun == {f \in FileNames : files[f].written_by = run}

\* C3: a run that has ended, with or without an error, has written all three
\* tables or none of them.
C3_AllOrNothing ==
    pc \in {"done", "failed"} => WrittenByThisRun \in {{}, FileNames}

\* C4: a (region, year) without a soil sample stops the generation at the
\* lookup: no record of that (region, year) exists, no record carries a score
\* that is not its sample's, the loop does not go on, crop_yields is not written.
C4_MissingSampleFails ==
    /\ \A c \in DOMAIN crop_data :
          LET m == SoilMatches(df_soil, crop_data[c].region, crop_data[c].year)
          IN  /\ m # <<>>
              /\ crop_data[c].soil_sustainability_score = m[1].sustainability_score
    /\ \A y \in DOMAIN years, r \in DOMAIN regions :
          SoilMatches(df_soil, regions[r], years[y]) = <<>> =>
              /\ files["crop_yields.csv"].written_by # run
              /\ pc \notin {"write_crops", "done"}
              /\ ~(y < yi \/ (y = yi /\ r < ri))
              /\ (y = yi /\ r = ri) => pc \in {"crop_lookup", "failed"}

C4_Witness ==
    /\ pc = "failed"
    /\ SoilMatches(df_soil, regions[ri], years[yi]) = <<>>
    /\ crop_data # <<>>

SoilStepFunction(score) ==
    IF score < 6000 THEN "Low" ELSE IF score < 8000 THEN "Medium" ELSE "High"

QualityRank(q) == CASE q = "Low" -> 1 [] q = "Medium" -> 2 [] q = "High" -> 3

\* C5: every soil sample's soil_quality is Low below 60, Medium from 60 to
\* below 80 and High from 80 on, of the stored score, which lies in [0, 100];
\* a higher score never has a lower quality; the written table says the same.
C5_SoilQualityStep ==
    /\ \A k \in DOMAIN soil_data :
          /\ soil_data[k].sustainability_score \in 0..10000
          /\ soil_data[k].soil_quality = SoilStepFunction(soil_data[k].sustainability_score)
    /\ \A a, b \in DOMAIN soil_data :
          soil_data[a].sustainability_score <= soil_data[b].sustainability_score
             => QualityRank(soil_data[a].soil_quality) <= QualityRank(soil_data[b].soil_quality)
    /\ \A k \in DOMAIN files["soil_samples.csv"].rows :
          LET row == files["soil_samples.csv"].rows[k]
          IN  row.soil_quality = SoilStepFunction(ParseFloat(row.sustainability_score, 100))

C5_Witness ==
    /\ \E k \in DOMAIN soil_data :
          /\ soil_data[k].sustainability_score = 6000
          /\ soil_data[k].soil_quality = "Medium"
    /\ \E k \in DOMAIN soil_data :
          /\ soil_data[k].sustainability_score = 8000
          /\ soil_data[k].soil_quality = "High"

HealthStepFunction(y) ==
    IF y < 350000 THEN "Poor" ELSE IF y < 600000 THEN "Moderate" ELSE "Excellent"

\* C6: every crop-yield record's crop_health is Poor below 3500, Moderate from
\* 3500 to below 6000 and Excellent from 6000 on, of the stored yield; the
\* written table says the same.
C6_CropHealthStep ==
    /\ \A k \in DOMAIN crop_data :
          crop_data[k].crop_health = HealthStepFunction(crop_data[k].yield_kg_per_hectare)
    /\ \A k \in DOMAIN files["crop_yields.csv"].rows :
          LET row == files["crop_yields.csv"].rows[k]
          IN  row.crop_health = HealthStepFunction(ParseFloat(row.yield_kg_per_hectare, 100))

C6_Witness ==
    /\ \E k \in DOMAIN crop_data :
          /\ crop_data[k].yield_kg_per_hectare = 350000
          /\ crop_data[k].crop_health = "Moderate"
    /\ \E k \in DOMAIN crop_data :
          /\ crop_data[k].yield_kg_per_hectare = 600000
          /\ crop_data[k].crop_health = "Excellent"

RECURSIVE SumInts(_)
SumInts(s) == IF s = <<>> THEN 0 ELSE s[1] + SumInts(Tail(s))

\* the historical rows of a region, as read from soil_samples.csv
HistoricalRows(region) ==
    RegionRows(MapSeq(ReadCsvSoil, files["soil_samples.csv"].rows), region)

LastHistorical(region) ==
    LET h == HistoricalRows(region)
    IN  h[CHOOSE k \in DOMAIN h : \A j \in DOMAIN h : h[j].year <= h[k].year]

\* numerator and denominator of the least-squares slope of the historical rows
HistoricalSlope(region) ==
    LET h == HistoricalRows(region)
        n == Len(h)
        sx == SumInts([k \in DOMAIN h |-> h[k].year])
        sy == SumInts([k \in DOMAIN h |-> h[k].sustainability_score[1]])
        sxx == SumInts([k \in DOMAIN h |-> h[k].year * h[k].year])
        sxy == SumInts([k \in DOMAIN h |-> h[k].year * h[k].sustainability_score[1]])
    IN  <<n * sxy - sx * sy, n * sxx - sx * sx>>

ExampleRows ==
    <<[year |-> 2023, sustainability_score |-> <<7000, 1>>],
      [year |-> 2024, sustainability_score |-> <<7200, 1>>],
      [year |-> 2025, sustainability_score |-> <<7400, 1>>]>>

\* C7: every row the projector appends, the i-th of its region, is of the year
\* i after the region's last historical year and carries the score of that year
\* plus i times the least-squares slope of the region's historical rows alone;
\* the rows read from soil_samples.csv stay as read; scores 70, 72, 74 of
\* 2023-2025 have slope 2.
C7_Projection ==
    /\ Polyfit1(ExampleRows) = <<200, 1>>
    /\ LET hist == MapSeq(ReadCsvSoil, files["soil_samples.csv"].rows)
           H == Len(hist)
           P == Len(projection_years)
       IN  \A k \in DOMAIN forecast_df :
              IF k <= H THEN forecast_df[k] = hist[k]
              ELSE LET row == forecast_df[k]
                       i == ((k - H - 1) % P) + 1
                       last == LastHistorical(row.region)
                       sl == HistoricalSlope(row.region)
                   IN  /\ row.region = vregions[((k - H - 1) \div P) + 1]
                       /\ row.year = projection_years[i]
                       /\ row.year = last.year + i
                       /\ row.sustainability_score[1] * sl[2]
                            = (last.sustainability_score[1] * sl[2] + i * sl[1])
                                * row.sustainability_score[2]

C7_Witness ==
    /\ pc = "viz_done"
    /\ \E k \in DOMAIN forecast_df :
          /\ forecast_df[k].soil_quality = "None"
          /\ forecast_df[k].region = vregions[Len(vregions)]
          /\ forecast_df[k].sustainability_score[2] # 1
          /\ ~FracEq(forecast_df[k].sustainability_score,
                     LastHistorical(forecast_df[k].region).sustainability_score)

\* C8: a complete run has built and written one soil sample per (year, region),
\* one crop-yield record per (year, region, crop) and at most
\* |nutrients| * (|nutrients| - 1) edges.
C8_RowCounts ==
    pc = "done" =>
        /\ Len(soil_data) = Len(years) * Len(regions)
        /\ \A y \in DOMAIN years, r \in DOMAIN regions :
              Cardinality(SoilKeyMatches(soil_data, regions[r], years[y])) = 1
        /\ Len(crop_data) = Len(years) * Len(regions) * Len(crops)
        /\ \A y \in DOMAIN years, r \in DOMAIN regions, c \in DOMAIN crops :
              Cardinality({k \in DOMAIN crop_data :
                              /\ crop_data[k].region = regions[r]
                              /\ crop_data[k].year = years[y]
                              /\ crop_data[k].crop_type = crops[c]}) = 1
        /\ Len(interactions) <= Len(nutrients) * (Len(nutrients) - 1)
        /\ Len(files["soil_samples.csv"].rows) = Len(years) * Len(regions)
        /\ Len(files["crop_yields.csv"].rows) = Len(years) * Len(regions) * Len(crops)
        /\ Len(files["nutrient_interactions.csv"].rows)
              <= Len(nutrients) * (Len(nutrients) - 1)

C8_Witness ==
    /\ pc = "done"
    /\ interactions # <<>>
    /\ Len(crop_data) > Len(soil_data)

\* C9: at every point of the generation no edge joins a nutrient to itself, no
\* ordered pair has two edges and no edge has the effect "none".
C9_EdgesWellFormed ==
    /\ \A k \in DOMAIN interactions :
          /\ interactions[k].source_nutrient # interactions[k].target_nutrient
          /\ interactions[k].effect_type \in {"antagonism", "stimulation"}
    /\ \A a, b \in DOMAIN interactions :
          (/\ interactions[a].source_nutrient = interactions[b].source_nutrient
           /\ interactions[a].target_nutrient = interactions[b].target_nutrient) => a = b

C9_Witness ==
    /\ pc = "interactions"
    /\ Len(interactions) >= 2
    /\ si = ti

\* C10 as stated: every stored weight is above 0.10 and at most 1.00.
C10_WeightAboveTenth ==
    \A k \in DOMAIN interactions :
        interactions[k].weight > 10 /\ interactions[k].weight <= 100

\* C10, amended: every stored weight is at least 0.10 and at most 1.00; a draw
\* below 0.105 is stored as 0.10.
C10_WeightClosedRange ==
    /\ \A k \in DOMAIN interactions :
          interactions[k].weight >= 10 /\ interactions[k].weight <= 100
    /\ \A k \in DOMAIN files["nutrient_interactions.csv"].rows :
          LET w == ParseFloat(files["nutrient_interactions.csv"].rows[k].weight, 100)
          IN  w >= 10 /\ w <= 100

C10_Witness ==
    /\ \E k \in DOMAIN interactions : interactions[k].weight = 10
    /\ \E k \in DOMAIN interactions : interactions[k].weight = 100

====
